---- MODULE Spec2Model ----
(***************************************************************************)
(* Job ingestion (JobService) and resume matching (MatchingService) of the *)
(* job-search backend, as a state machine.                                 *)
(*                                                                         *)
(* Time is a logical clock in days: datetime.utcnow() reads `clock`.       *)
(* Every await of a coroutine that touches the job store is one step, so   *)
(* concurrent sync runs interleave exactly at the store operations.        *)
(***************************************************************************)
EXTENDS Integers, Sequences, FiniteSets, TLC

\* ---------------------------------------------------------------- bounds
\* postings returned by one fetch_all_jobs call
MaxFetch == 1
\* store faults (a failing motor call) injected in one behaviour
MaxFaults == 1
\* job records in the store when matching is asked for
MaxJobs == 2
\* pages a fetch_all_jobs call may ask for (max_pages)
MaxPages == 2
\* results_per_page, scaled down from ADZUNA_RESULTS_PER_PAGE
PageSize == 2
\* answers of the remote service a CTSClient call can use up
MaxCalls == 3
\* awaited calls of JobScheduler.start followed
MaxStarts == 2
\* manual triggers followed
MaxOneOff == 2

\* ------------------------------------------------------ program constants
\* settings.JOB_EXPIRY_DAYS
JOB_EXPIRY_DAYS == 30
\* stop_after_attempt(3) of the CTSClient retry decorators
STOP_AFTER_ATTEMPT == 3
\* settings.CACHE_EXPIRY_HOURS
CACHE_EXPIRY_HOURS == 24
\* the local matcher's threshold 0.1; scores are counted in thousandths
LOW_SCORE == 100

\* the keys of ENGINEERING_CONFIG, in iteration order (the first two of ten)
ENGINEERING_CONFIG == <<"Software Engineer", "Data Engineer">>

\* the sync coroutines that may execute
Runs == {"r1", "r2"}
\* the coroutines are interchangeable: r2 is the one started second
Earlier == [r1 |-> {}, r2 |-> {"r1"}]
\* external ids (adzuna_id) the listing source can return
AdzunaIds == {"a1", "a2"}
\* values of uuid.uuid4().hex[:8]: the worst case, every draw collides
Uuids == {"u1"}
\* contents a posting can carry (title, description, ...), as one value
Titles == {"t1", "t2"}
\* job.get("id") of a posting without an id
NoId == "none"
\* find_one returning None
None == 0

\* raw postings: <<id, title>>; id NoId is a posting without "id"
Postings == (AdzunaIds \X Titles) \cup {<<NoId, "t1">>}

VARIABLES
    clock,      \* datetime.utcnow()
    jobs,       \* db.jobs: _id -> document
    nextId,     \* the next fresh ObjectId
    logs,       \* db.job_sync_logs: <<run, n>> -> document
    run,        \* the sync coroutines: their position and locals
    faults,     \* store faults injected so far
    cache,      \* db.resume_search_cache, in insertion order
    match,      \* the match_resume_to_jobs call: its position and locals
    fetch,      \* the fetch_all_jobs call: the source's answers, the result
    cts,        \* the CTSClient call: the service's answers, the calls made
    rag,        \* the LocalRAGMatcher call: its texts and score components
    admin,      \* the /admin/refresh-jobs request and its background task
    sched       \* the JobScheduler singleton and its AsyncIOScheduler

\* the state of the components a sync run or a match request calls
others == <<fetch, cts, rag, admin, sched>>

vars == <<clock, jobs, nextId, logs, run, faults, cache, match, others>>

\* ----------------------------------------------------------- job store

\* AdzunaClient.parse_job_data: the normalized record of a raw posting
parse_job_data(p) == [adzuna_id |-> p[1], title |-> p[2]]

\* CTSClient-independent local requisition id: f"req-{adzuna_id}-{uuid}"
RequisitionId(aid, u) == <<"req", aid, u>>

\* find_one with the filter left out: the first document of the collection
find_one_unfiltered(store, aid) ==
    IF DOMAIN store # {}
    THEN CHOOSE d \in DOMAIN store : \A e \in DOMAIN store : d <= e
    ELSE None

\* find_one that never matches
find_one_nothing(store, aid) == None

\* jobs_collection.find_one({"adzuna_id": aid}): the _id found, or None
find_one(store, aid) ==
    IF \E d \in DOMAIN store : store[d].adzuna_id = aid
    THEN CHOOSE d \in DOMAIN store : store[d].adzuna_id = aid
    ELSE None

\* a collection without unique indexes
NoUniqueIndex(store, doc) == FALSE

\* the unique indexes on adzuna_id and requisition_id (create_indexes)
DuplicateKey(store, doc) ==
    \E d \in DOMAIN store :
        \/ store[d].adzuna_id = doc.adzuna_id
        \/ store[d].requisition_id = doc.requisition_id

\* pydantic validation of Job(...): adzuna_id is a required str
ValidJob(parsed) == parsed.adzuna_id # NoId

\* the document _create_job builds
NewJob(parsed, now, u) ==
    [adzuna_id      |-> parsed.adzuna_id,
     requisition_id |-> RequisitionId(parsed.adzuna_id, u),
     title          |-> parsed.title,
     status         |-> "active",
     created_at     |-> now,
     updated_at     |-> now,
     expires_at     |-> now + JOB_EXPIRY_DAYS]

\* JobService._create_job: [ok, store]; ok = FALSE when it raises
create_job(store, id, parsed, now, u) ==
    IF ~ValidJob(parsed) \/ DuplicateKey(store, NewJob(parsed, now, u))
    THEN [ok |-> FALSE, store |-> store]
    ELSE [ok |-> TRUE,
          store |-> [d \in DOMAIN store \cup {id} |->
                        IF d = id THEN NewJob(parsed, now, u) ELSE store[d]]]

\* _update_job with expires_at left out of the $set
update_job_keep_expiry(store, existing, parsed, now) ==
    [d \in DOMAIN store |->
        IF d = existing
        THEN [store[d] EXCEPT !.title = parsed.title,
                              !.status = "active",
                              !.updated_at = now]
        ELSE store[d]]

\* JobService._update_job: update_one({"_id": existing}, {"$set": ...})
update_job(store, existing, parsed, now) ==
    [d \in DOMAIN store |->
        IF d = existing
        THEN [store[d] EXCEPT !.title = parsed.title,
                              !.status = "active",
                              !.expires_at = now + JOB_EXPIRY_DAYS,
                              !.updated_at = now]
        ELSE store[d]]

\* _mark_expired_jobs filtering on updated_at before the run's start
mark_expired_by_updated_at(store, now, start) ==
    [d \in DOMAIN store |->
        IF store[d].status = "active" /\ store[d].updated_at < start
        THEN [store[d] EXCEPT !.status = "expired"]
        ELSE store[d]]

\* JobService._mark_expired_jobs: update_many on active, expires_at < now
mark_expired_jobs(store, now, start) ==
    [d \in DOMAIN store |->
        IF store[d].status = "active" /\ store[d].expires_at < now
        THEN [store[d] EXCEPT !.status = "expired"]
        ELSE store[d]]

\* delete_many with updated_at <= ts
delete_not_updated_lte(store, ts) ==
    LET keep == {d \in DOMAIN store : ~(store[d].updated_at <= ts)}
    IN  [d \in keep |-> store[d]]

\* delete_many with a cutoff one day before ts
delete_not_updated_day_early(store, ts) ==
    LET keep == {d \in DOMAIN store : ~(store[d].updated_at < ts - 1)}
    IN  [d \in keep |-> store[d]]

\* a delete that removes nothing
delete_none(store, ts) == store

\* JobService.delete_jobs_not_updated_since: delete_many updated_at < ts
delete_jobs_not_updated_since(store, ts) ==
    LET keep == {d \in DOMAIN store : ~(store[d].updated_at < ts)}
    IN  [d \in keep |-> store[d]]

\* ------------------------------------------------------------ sync logs

\* JobSyncLog(sync_type=..., status="in_progress")
NewLog(sync_type, now) ==
    [sync_type    |-> sync_type,
     status       |-> "in_progress",
     jobs_fetched |-> 0,
     jobs_created |-> 0,
     jobs_updated |-> 0,
     jobs_deleted |-> 0,
     jobs_failed  |-> 0,
     error        |-> FALSE,
     started_at   |-> now]

\* ------------------------------------------------------------- the runs

IdleRun ==
    [kind |-> "idle", pc |-> "idle", start |-> 0, cat |-> 0,
     left |-> 0, cur |-> <<NoId, "t1">>, existing |-> None,
     c |-> 0, u |-> 0, f |-> 0, tc |-> 0, tu |-> 0, tf |-> 0,
     swept |-> "no", sweepTime |-> 0, wrote |-> <<>>, raised |-> FALSE]

Active(r) == run[r].kind # "idle" /\ run[r].pc # "done"

CanFault == faults < MaxFaults

\* no match request is being served
IdleMatch ==
    [pc |-> "idle", served |-> 0, resume_text |-> "", job_level |-> "None",
     max_results |-> 0, cache_key |-> "", cached |-> <<>>, remote |-> "none",
     use_local_rag |-> FALSE, score_map |-> <<>>, filtered |-> <<>>,
     result |-> <<>>, raised |-> FALSE, entry |-> "none", api |-> "none"]

\* no fetch_all_jobs call is followed page by page
NoFetch ==
    [pc |-> "none", pages |-> <<>>, max_pages |-> 0, requested |-> 0,
     all_jobs |-> <<>>]

\* no LocalRAGMatcher call is followed
NoScoring ==
    [pc |-> "none", resume_text |-> "", title |-> "", description |-> "",
     resume_skills |-> {}, job_skills |-> {}, skill_score |-> <<0, 1>>,
     keyword_hit |-> FALSE]

\* no CTSClient call is followed
NoCall ==
    [pc |-> "none", op |-> "none", answers |-> <<>>, attempt |-> 0,
     trace |-> <<>>, outcome |-> "none"]

\* no /admin/refresh-jobs request was made
NoRequest ==
    [pc |-> "idle", search_query |-> "None", max_pages |-> 0,
     country |-> "None", status |-> "none", raised |-> FALSE]

\* JobScheduler.__init__ before the application starts: nothing
\* registered, nothing running; now is the time add_job ids are derived
\* from, unawaited counts the coroutine objects dropped without await
NewScheduler ==
    [phase |-> "created", is_running |-> FALSE, started |-> FALSE,
     jobstore |-> <<>>, starts |-> 0, unawaited |-> 0, now |-> 0,
     raised |-> FALSE]

\* the endpoints and the scheduler at rest
RestIdle == admin = NoRequest /\ sched = NewScheduler

\* the called components at rest
OthersIdle == fetch = NoFetch /\ cts = NoCall /\ rag = NoScoring /\ RestIdle

Init ==
    /\ OthersIdle
    /\ clock = 0
    /\ jobs = <<>>
    /\ nextId = 1
    /\ logs = <<>>
    /\ run = [r \in Runs |-> IdleRun]
    /\ faults = 0
    /\ cache = <<>>
    /\ match = IdleMatch

\* insert_one / update_one on job_sync_logs
PutLog(id, doc) ==
    [k \in DOMAIN logs \cup {id} |-> IF k = id THEN doc ELSE logs[k]]

\* the log document of the sync_jobs_from_adzuna call run r is in
LogId(rr, r) == <<r, rr.cat>>

\* ------------------------------------------ JobService.sync_jobs_from_adzuna

\* a caller that gives up on the first category that raised
AfterSyncAbort(rr, raised) ==
    IF rr.kind = "single" \/ raised
    THEN [rr EXCEPT !.pc = "done", !.raised = raised]
    ELSE [rr EXCEPT !.tc = @ + rr.c,
                    !.tu = @ + rr.u,
                    !.tf = @ + rr.f,
                    !.pc = IF rr.cat < Len(ENGINEERING_CONFIG) THEN "cat" ELSE "delete"]

\* the caller's view of sync_jobs_from_adzuna ending (returned or raised):
\* a direct call is over; sync_engineering_jobs adds the counts of the
\* returned log (or one failure when it raised), sleeps and moves on
AfterSync(rr, raised) ==
    IF rr.kind = "single"
    THEN [rr EXCEPT !.pc = "done", !.raised = raised]
    ELSE [rr EXCEPT !.tc = IF raised THEN @ ELSE @ + rr.c,
                    !.tu = IF raised THEN @ ELSE @ + rr.u,
                    !.tf = IF raised THEN @ + 1 ELSE @ + rr.f,
                    !.pc = IF rr.cat < Len(ENGINEERING_CONFIG) THEN "cat" ELSE "delete"]

\* the loop body up to find_one: parse the posting p, look it up
Lookup(rr, p) ==
    [rr EXCEPT !.cur = p,
               !.existing = find_one(jobs, parse_job_data(p).adzuna_id),
               !.pc = "write"]

\* sync_jobs_from_adzuna up to the loop: insert the log, fetch n postings,
\* record jobs_fetched; fault = the jobs_fetched update raises, which the
\* outer handler records as failed and re-raises
BeginSync(r, r0, sync_type, n, fault) ==
    LET log0 == NewLog(sync_type, clock)
        rr   == [r0 EXCEPT !.left = n, !.c = 0, !.u = 0, !.f = 0,
                           !.existing = None, !.swept = "no", !.sweepTime = 0]
    IN  IF fault
        THEN /\ logs' = PutLog(LogId(rr, r),
                               [log0 EXCEPT !.status = "failed", !.error = TRUE])
             /\ run' = [run EXCEPT ![r] = AfterSync([rr EXCEPT !.left = 0], TRUE)]
             /\ faults' = faults + 1
        ELSE /\ logs' = PutLog(LogId(rr, r), [log0 EXCEPT !.jobs_fetched = n])
             /\ run' = [run EXCEPT ![r] =
                          [rr EXCEPT !.pc = IF n = 0 THEN "sweep" ELSE "find"]]
             /\ faults' = faults

\* len(jobs_data) of what fetch_all_jobs returns
Fetched == 0 .. MaxFetch

\* a direct call of JobService.sync_jobs_from_adzuna
StartSingle(r) ==
    /\ run[r].pc = "idle"
    /\ \A q \in Earlier[r] : run[q].pc # "idle"
    /\ \E n \in Fetched, fault \in {FALSE, CanFault} :
          BeginSync(r, [run[r] EXCEPT !.kind = "single", !.start = clock],
                    "manual", n, fault)
    /\ UNCHANGED <<clock, jobs, nextId, cache, match, others>>

\* an iteration of the loop, up to find_one
Find(r) ==
    /\ run[r].pc = "find"
    /\ \E p \in Postings : run' = [run EXCEPT ![r] = Lookup(run[r], p)]
    /\ UNCHANGED <<clock, jobs, nextId, logs, faults, cache, match, others>>

\* what a run remembers having written (history, not program state):
\* _id -> the normalized posting it last wrote there
Remember(w, id, parsed) ==
    [d \in DOMAIN w \cup {id} |-> IF d = id THEN parsed ELSE w[d]]

\* the rest of the loop body: _update_job or _create_job, then the
\* job_types upsert; fault = that upsert raises after the count was taken
Write(r) ==
    /\ run[r].pc = "write"
    /\ \E u \in Uuids, fault \in {FALSE, CanFault} :
          LET rr      == run[r]
              parsed  == parse_job_data(rr.cur)
              found   == rr.existing # None
              res     == create_job(jobs, nextId, parsed, clock, u)
              created == ~found /\ res.ok
              store   == IF found THEN update_job(jobs, rr.existing, parsed, clock)
                         ELSE res.store
              hit     == IF found THEN rr.existing \in DOMAIN jobs ELSE res.ok
              id      == IF found THEN rr.existing ELSE nextId
              jtfault == fault /\ (found \/ res.ok)
          IN  /\ jobs' = store
              /\ nextId' = IF created THEN nextId + 1 ELSE nextId
              /\ faults' = IF jtfault THEN faults + 1 ELSE faults
              /\ run' = [run EXCEPT ![r] =
                    [rr EXCEPT !.c = IF created THEN @ + 1 ELSE @,
                               !.u = IF found THEN @ + 1 ELSE @,
                               !.f = @ + (IF ~found /\ ~res.ok THEN 1 ELSE 0)
                                       + (IF jtfault THEN 1 ELSE 0),
                               !.wrote = IF hit THEN Remember(@, id, parsed) ELSE @,
                               !.existing = None,
                               !.cur = <<NoId, "t1">>,
                               !.left = @ - 1,
                               !.pc = IF rr.left = 1 THEN "sweep" ELSE "find"]]
    /\ UNCHANGED <<clock, logs, cache, match, others>>

\* documents an update_many / delete_many changed
Modified(old, new) ==
    Cardinality({d \in DOMAIN old : d \notin DOMAIN new \/ new[d] # old[d]})

\* _mark_expired_jobs, the final update of the log, its re-read and the
\* return; sfault = update_many raises, which _mark_expired_jobs swallows;
\* ufault = the log update raises, which the outer handler records as
\* failed and re-raises; rfault = the re-read of the updated log raises,
\* which leaves the log completed until the outer handler runs
Sweep(r) ==
    /\ run[r].pc = "sweep"
    /\ \E sfault \in {FALSE, CanFault}, ufault \in {FALSE, CanFault},
          rfault \in {FALSE, CanFault} :
          LET rr    == run[r]
              lid   == LogId(rr, r)
              store == IF sfault THEN jobs
                       ELSE mark_expired_jobs(jobs, clock, logs[lid].started_at)
              swept == [rr EXCEPT !.swept = IF sfault THEN "err" ELSE "ok",
                                  !.sweepTime = clock]
          IN  /\ ~(sfault /\ ufault) /\ ~(sfault /\ rfault) /\ ~(ufault /\ rfault)
              /\ jobs' = store
              /\ faults' = IF sfault \/ ufault \/ rfault THEN faults + 1 ELSE faults
              /\ logs' = PutLog(lid,
                    IF ufault
                    THEN [logs[lid] EXCEPT !.status = "failed", !.error = TRUE]
                    ELSE [logs[lid] EXCEPT !.status = "completed",
                                           !.jobs_created = rr.c,
                                           !.jobs_updated = rr.u,
                                           !.jobs_deleted = Modified(jobs, store),
                                           !.jobs_failed = rr.f])
              /\ run' = [run EXCEPT ![r] =
                            IF rfault THEN [swept EXCEPT !.pc = "reread"]
                            ELSE AfterSync(swept, ufault)]
    /\ UNCHANGED <<clock, nextId, cache, match, others>>

\* the outer handler of sync_jobs_from_adzuna after the re-read raised:
\* the log is set to failed and the exception goes to the caller
RereadFailed(r) ==
    /\ run[r].pc = "reread"
    /\ logs' = PutLog(LogId(run[r], r),
                      [logs[LogId(run[r], r)] EXCEPT !.status = "failed", !.error = TRUE])
    /\ run' = [run EXCEPT ![r] = AfterSync(run[r], TRUE)]
    /\ UNCHANGED <<clock, jobs, nextId, faults, cache, match, others>>

\* ------------------------------------------ JobService.sync_engineering_jobs

\* start_time = utcnow(), insert the parent log
BeginBulk(r) ==
    /\ logs' = PutLog(<<r, 0>>, NewLog("daily_engineering_mass_sync", clock))
    /\ run' = [run EXCEPT ![r] =
                  [@ EXCEPT !.kind = "bulk", !.start = clock, !.pc = "cat"]]

\* a call of sync_engineering_jobs
StartBulk(r) ==
    /\ run[r].pc = "idle"
    /\ \A q \in Earlier[r] : run[q].pc # "idle"
    /\ BeginBulk(r)
    /\ UNCHANGED <<clock, jobs, nextId, faults, cache, match, others>>

\* the next category's call of sync_jobs_from_adzuna
SubSync(r) ==
    /\ run[r].pc = "cat"
    /\ \E n \in Fetched, fault \in {FALSE, CanFault} :
          BeginSync(r, [run[r] EXCEPT !.cat = @ + 1], "manual_subtask",
                    n, fault)
    /\ UNCHANGED <<clock, jobs, nextId, cache, match, others>>

\* delete_jobs_not_updated_since(start_time), the final update of the
\* parent log, its re-read and the return; dfault = delete_many raises,
\* which the delete swallows; ufault = the log update raises, which the
\* handler records as failed and re-raises; rfault = the re-read raises,
\* which leaves the log completed until the handler runs
BulkDelete(r) ==
    /\ run[r].pc = "delete"
    /\ \E dfault \in {FALSE, CanFault}, ufault \in {FALSE, CanFault},
          rfault \in {FALSE, CanFault} :
          LET rr    == run[r]
              store == IF dfault THEN jobs
                       ELSE delete_jobs_not_updated_since(jobs, rr.start)
          IN  /\ ~(dfault /\ ufault) /\ ~(dfault /\ rfault) /\ ~(ufault /\ rfault)
              /\ jobs' = store
              /\ faults' = IF dfault \/ ufault \/ rfault THEN faults + 1 ELSE faults
              /\ logs' = PutLog(<<r, 0>>,
                    IF ufault
                    THEN [logs[<<r, 0>>] EXCEPT !.status = "failed", !.error = TRUE]
                    ELSE [logs[<<r, 0>>] EXCEPT !.status = "completed",
                                                !.jobs_created = rr.tc,
                                                !.jobs_updated = rr.tu,
                                                !.jobs_deleted = Modified(jobs, store),
                                                !.jobs_failed = rr.tf])
              /\ run' = [run EXCEPT ![r].swept = IF dfault THEN "err" ELSE "ok",
                                    ![r].sweepTime = clock,
                                    ![r].pc = IF rfault THEN "reread_parent" ELSE "done",
                                    ![r].raised = ufault]
    /\ UNCHANGED <<clock, nextId, cache, match, others>>

\* the handler of sync_engineering_jobs after the re-read raised: the
\* parent log is set to failed and the exception goes to the caller
BulkRereadFailed(r) ==
    /\ run[r].pc = "reread_parent"
    /\ logs' = PutLog(<<r, 0>>,
                      [logs[<<r, 0>>] EXCEPT !.status = "failed", !.error = TRUE])
    /\ run' = [run EXCEPT ![r].pc = "done", ![r].raised = TRUE]
    /\ UNCHANGED <<clock, jobs, nextId, faults, cache, match, others>>

\* ------------------------------------------------------------------ time

\* no sync coroutine is executing
Quiet == \A r \in Runs : ~Active(r)

\* a day passes before the next run starts (a run lasts well under
\* JOB_EXPIRY_DAYS: one day at most passes while it executes); only the
\* order of timestamps is compared within JOB_EXPIRY_DAYS, so a day that
\* separates nothing stamped is not taken
Tick ==
    /\ \E r \in Runs : run[r].pc = "idle"
    /\ \A r \in Runs : Active(r) => run[r].start = clock
    /\ \/ \E d \in DOMAIN jobs : jobs[d].updated_at = clock
       \/ \E r \in Runs : Active(r) /\ run[r].start = clock
    /\ clock' = clock + 1
    /\ UNCHANGED <<jobs, nextId, logs, run, faults, cache, match, others>>

\* more than JOB_EXPIRY_DAYS pass while no run executes
AgeOut ==
    /\ Quiet
    /\ \E r \in Runs : run[r].pc = "idle"
    /\ \E d \in DOMAIN jobs : jobs[d].expires_at >= clock
    /\ clock' = clock + JOB_EXPIRY_DAYS + 1
    /\ UNCHANGED <<jobs, nextId, logs, run, faults, cache, match, others>>

\* runs one after the other, on a healthy store
Next ==
    \/ \E r \in Runs : Quiet /\ StartSingle(r) /\ faults' = faults
    \/ \E r \in Runs : Quiet /\ StartBulk(r)
    \/ \E r \in Runs : SubSync(r) /\ faults' = faults
    \/ \E r \in Runs : Find(r)
    \/ \E r \in Runs : Write(r) /\ faults' = faults
    \/ \E r \in Runs : Sweep(r) /\ faults' = faults
    \/ \E r \in Runs : BulkDelete(r) /\ faults' = faults
    \/ Quiet /\ Tick
    \/ AgeOut

Spec == Init /\ [][Next]_vars

\* runs started while another executes (the daily cron job, the jobs
\* trigger_manual_refresh adds under fresh ids and the admin endpoint's
\* background tasks have no common guard), on a healthy store
ConcNext ==
    \/ \E r \in Runs : StartSingle(r) /\ faults' = faults
    \/ \E r \in Runs : StartBulk(r)
    \/ \E r \in Runs : SubSync(r) /\ faults' = faults
    \/ \E r \in Runs : Find(r)
    \/ \E r \in Runs : Write(r) /\ faults' = faults
    \/ \E r \in Runs : Sweep(r) /\ faults' = faults
    \/ \E r \in Runs : BulkDelete(r) /\ faults' = faults
    \/ Tick

ConcSpec == Init /\ [][ConcNext]_vars

\* runs one after the other, on a store where the first write of a
\* category's sub-sync can fail
CategoryFaultNext ==
    \/ \E r \in Runs : Quiet /\ StartSingle(r) /\ faults' = faults
    \/ \E r \in Runs : Quiet /\ StartBulk(r)
    \/ \E r \in Runs : SubSync(r)
    \/ \E r \in Runs : Find(r)
    \/ \E r \in Runs : Write(r) /\ faults' = faults
    \/ \E r \in Runs : Sweep(r) /\ faults' = faults
    \/ \E r \in Runs : BulkDelete(r) /\ faults' = faults
    \/ Quiet /\ Tick
    \/ AgeOut

CategoryFaultSpec == Init /\ [][CategoryFaultNext]_vars

\* a bulk run is executing
BulkRunning == \E q \in Runs : run[q].kind = "bulk"

\* overlapping runs of which at most one is a bulk run
OverlapNext ==
    \/ \E r \in Runs : StartSingle(r) /\ faults' = faults
    \/ \E r \in Runs : ~BulkRunning /\ StartBulk(r)
    \/ \E r \in Runs : SubSync(r) /\ faults' = faults
    \/ \E r \in Runs : Find(r)
    \/ \E r \in Runs : Write(r) /\ faults' = faults
    \/ \E r \in Runs : Sweep(r) /\ faults' = faults
    \/ \E r \in Runs : BulkDelete(r) /\ faults' = faults
    \/ Tick

OverlapSpec == Init /\ [][OverlapNext]_vars

\* one run on a store whose calls may fail
FaultNext ==
    \/ StartSingle("r1")
    \/ StartBulk("r1")
    \/ SubSync("r1")
    \/ Find("r1")
    \/ Write("r1")
    \/ Sweep("r1")
    \/ RereadFailed("r1")
    \/ BulkDelete("r1")
    \/ BulkRereadFailed("r1")

FaultSpec == Init /\ [][FaultNext]_vars

\* ---------------------------------------------- api/admin.refresh_jobs_manually

\* the search_query values of a request: none, the mass sync, a job title
SearchQueries == {"None", "ALL_ENGINEERING", "Civil Engineer"}

\* the country values of a request: none or a country code
Countries == {"None", "in"}

\* the parameters sync_jobs_from_adzuna declares, self aside
SyncJobsParameters == {"sync_type", "max_pages", "search_query"}

\* the keyword arguments sync_task passes to sync_jobs_from_adzuna
SyncTaskKeywords == {"sync_type", "max_pages", "search_query", "country"}

\* a Python call by keyword: it binds when every keyword names a declared
\* parameter and raises TypeError, before the body runs, otherwise
binds(parameters, keywords) == keywords \subseteq parameters

\* POST /admin/refresh-jobs: sync_task is handed to BackgroundTasks and
\* the response says in_progress
RefreshJobsManually ==
    /\ admin.pc = "idle"
    /\ \E search_query \in SearchQueries, max_pages \in 1 .. MaxPages,
          country \in Countries :
          admin' = [admin EXCEPT !.pc = "queued",
                                 !.search_query = search_query,
                                 !.max_pages = max_pages,
                                 !.country = country,
                                 !.status = "in_progress"]
    /\ UNCHANGED <<clock, jobs, nextId, logs, run, faults, cache, match,
                   fetch, cts, rag, sched>>

\* sync_task, run after the response: sync_engineering_jobs for
\* ALL_ENGINEERING, else the call of sync_jobs_from_adzuna by keyword,
\* which starts the run as coroutine r when it binds
SyncTask(r) ==
    /\ admin.pc = "queued"
    /\ run[r].pc = "idle"
    /\ IF admin.search_query = "ALL_ENGINEERING"
       THEN /\ BeginBulk(r)
            /\ faults' = faults
            /\ admin' = [admin EXCEPT !.pc = "started"]
       ELSE IF binds(SyncJobsParameters, SyncTaskKeywords)
       THEN /\ \E n \in Fetched :
                  BeginSync(r, [run[r] EXCEPT !.kind = "single", !.start = clock],
                            "manual", n, FALSE)
            /\ admin' = [admin EXCEPT !.pc = "started"]
       ELSE /\ admin' = [admin EXCEPT !.pc = "started", !.raised = TRUE]
            /\ UNCHANGED <<logs, run, faults>>
    /\ UNCHANGED <<clock, jobs, nextId, cache, match, fetch, cts, rag, sched>>

\* one request to the admin endpoint and the run its task starts, on a
\* healthy store
AdminNext ==
    \/ RefreshJobsManually
    \/ SyncTask("r1")
    \/ SubSync("r1") /\ faults' = faults
    \/ Find("r1")
    \/ Write("r1") /\ faults' = faults
    \/ Sweep("r1") /\ faults' = faults
    \/ BulkDelete("r1") /\ faults' = faults

AdminSpec == Init /\ [][AdminNext]_vars

\* ---------------------------------------------------- scheduler.JobScheduler

\* ids of the recurring jobs start registers; ids are <<name, time>>, the
\* time being 0 where the id is a fixed string
RecurringIds ==
    {<<"daily_job_sync", 0>>, <<"daily_emails", 0>>,
     <<"weekly_emails", 0>>, <<"biweekly_emails", 0>>}

\* the order in which start registers them
RecurringOrder ==
    << <<"daily_job_sync", 0>>, <<"daily_emails", 0>>,
       <<"weekly_emails", 0>>, <<"biweekly_emails", 0>> >>

\* the email argument of a manual delivery
Emails == {"None", "a@x"}

\* AsyncIOScheduler.add_job(id=..., replace_existing=...): [ok, store];
\* a job under a taken id is replaced or, without replace_existing,
\* refused with ConflictingIdError
add_job(store, id, trigger, kwargs, replace_existing) ==
    LET job  == [id |-> id, trigger |-> trigger, kwargs |-> kwargs]
        same == {i \in 1 .. Len(store) : store[i].id = id}
    IN  IF same = {}
        THEN [ok |-> TRUE, store |-> Append(store, job)]
        ELSE IF replace_existing
        THEN [ok |-> TRUE,
              store |-> [i \in 1 .. Len(store) |->
                            IF i \in same THEN job ELSE store[i]]]
        ELSE [ok |-> FALSE, store |-> store]

\* the four add_job calls of start, in order
RECURSIVE add_recurring(_, _)
add_recurring(store, k) ==
    IF k > Len(RecurringOrder) THEN store
    ELSE add_recurring(add_job(store, RecurringOrder[k], "cron", "None", TRUE).store,
                       k + 1)

\* the body of the coroutine JobScheduler.start
start(s) ==
    IF s.is_running THEN s
    ELSE [s EXCEPT !.jobstore = add_recurring(s.jobstore, 1),
                   !.started = TRUE,
                   !.is_running = TRUE]

\* JobScheduler.stop
stop(s) ==
    IF ~s.is_running THEN s
    ELSE [s EXCEPT !.started = FALSE, !.is_running = FALSE]

\* lifespan up to the yield: scheduler.start() is called without await,
\* which builds the coroutine object and drops it; its body does not run
LifespanStartup ==
    /\ sched.phase = "created"
    /\ sched' = [sched EXCEPT !.phase = "up", !.unawaited = @ + 1]
    /\ UNCHANGED <<clock, jobs, nextId, logs, run, faults, cache, match,
                   fetch, cts, rag, admin>>

\* lifespan after the yield: scheduler.stop()
LifespanShutdown ==
    /\ sched.phase = "up"
    /\ sched' = [stop(sched) EXCEPT !.phase = "down"]
    /\ UNCHANGED <<clock, jobs, nextId, logs, run, faults, cache, match,
                   fetch, cts, rag, admin>>

\* a caller that awaits JobScheduler.start
AwaitStart ==
    /\ sched.starts < MaxStarts
    /\ sched.phase # "down"
    /\ sched' = [start(sched) EXCEPT !.starts = @ + 1]
    /\ UNCHANGED <<clock, jobs, nextId, logs, run, faults, cache, match,
                   fetch, cts, rag, admin>>

\* the one-off jobs in the job store
OneOffs(s) == {i \in 1 .. Len(s.jobstore) : s.jobstore[i].trigger = "date"}

\* trigger_manual_refresh / trigger_manual_email_delivery: a one-off job
\* under an id derived from datetime.now(), which has moved on by the
\* next call
TriggerManual(name, kwargs) ==
    /\ sched.phase # "down"
    /\ sched.now < MaxOneOff
    /\ LET added == add_job(sched.jobstore, <<name, sched.now + 1>>, "date",
                            kwargs, FALSE)
       IN  sched' = [sched EXCEPT !.now = @ + 1,
                                  !.jobstore = added.store,
                                  !.raised = ~added.ok]
    /\ UNCHANGED <<clock, jobs, nextId, logs, run, faults, cache, match,
                   fetch, cts, rag, admin>>

\* a started AsyncIOScheduler runs a one-off job that is due and removes
\* it from the job store
RunOneOff ==
    /\ sched.started
    /\ \E i \in OneOffs(sched) :
          sched' = [sched EXCEPT !.jobstore =
                       SubSeq(@, 1, i - 1) \o SubSeq(@, i + 1, Len(@))]
    /\ UNCHANGED <<clock, jobs, nextId, logs, run, faults, cache, match,
                   fetch, cts, rag, admin>>

\* the life of the scheduler singleton
SchedNext ==
    \/ LifespanStartup
    \/ LifespanShutdown
    \/ AwaitStart
    \/ TriggerManual("manual_refresh", "None")
    \/ \E email \in Emails : TriggerManual("manual_email", email)
    \/ RunOneOff

SchedSpec == Init /\ [][SchedNext]_vars

\* ------------------------------------------- AdzunaClient.fetch_all_jobs

\* what search_jobs can end with for one page: an answer with its
\* "results" (as many postings) and its "count", an AdzunaAPIError, or
\* another exception
PageAnswers ==
    [kind : {"ok"}, results : 0 .. PageSize, count : 0 .. MaxPages * PageSize + 1]
        \cup {[kind |-> "api_error", results |-> 0, count |-> 0],
              [kind |-> "error", results |-> 0, count |-> 0]}

\* the postings of page p: <<page, position>>
PagePostings(p, n) == [i \in 1 .. n |-> <<p, i>>]

\* a loop that drops what it gathered when a page fails
RECURSIVE fetch_loop_all_or_nothing(_, _, _, _)
fetch_loop_all_or_nothing(pages, max_pages, page, all_jobs) ==
    IF page > max_pages THEN [all_jobs |-> all_jobs, requested |-> page - 1]
    ELSE LET result == pages[page]
             more   == all_jobs \o PagePostings(page, result.results)
         IN  IF result.kind # "ok"
             THEN [all_jobs |-> <<>>, requested |-> page]
             ELSE IF result.results = 0
             THEN [all_jobs |-> all_jobs, requested |-> page]
             ELSE IF page * PageSize >= result.count
             THEN [all_jobs |-> more, requested |-> page]
             ELSE fetch_loop_all_or_nothing(pages, max_pages, page + 1, more)

\* the while loop of fetch_all_jobs from page on: [all_jobs, requested],
\* requested = the last page asked for; both except branches break
RECURSIVE fetch_loop(_, _, _, _)
fetch_loop(pages, max_pages, page, all_jobs) ==
    IF page > max_pages THEN [all_jobs |-> all_jobs, requested |-> page - 1]
    ELSE LET result == pages[page]
             more   == all_jobs \o PagePostings(page, result.results)
         IN  IF result.kind # "ok" \/ result.results = 0
             THEN [all_jobs |-> all_jobs, requested |-> page]
             ELSE IF page * PageSize >= result.count
             THEN [all_jobs |-> more, requested |-> page]
             ELSE fetch_loop(pages, max_pages, page + 1, more)

\* AdzunaClient.fetch_all_jobs
fetch_all_jobs(pages, max_pages) == fetch_loop(pages, max_pages, 1, <<>>)

\* a source with its answers for the pages a call can ask for
FetchInit ==
    /\ fetch \in [pc : {"idle"}, pages : [1 .. MaxPages -> PageAnswers],
                   max_pages : 1 .. MaxPages, requested : {0}, all_jobs : {<<>>}]
    /\ cts = NoCall
    /\ rag = NoScoring
    /\ RestIdle
    /\ clock = 0
    /\ jobs = <<>>
    /\ nextId = 1
    /\ logs = <<>>
    /\ run = [r \in Runs |-> IdleRun]
    /\ faults = 0
    /\ cache = <<>>
    /\ match = IdleMatch

\* a call of fetch_all_jobs by itself
FetchAll ==
    /\ fetch.pc = "idle"
    /\ LET got == fetch_all_jobs(fetch.pages, fetch.max_pages)
       IN  fetch' = [fetch EXCEPT !.pc = "fetched",
                                  !.requested = got.requested,
                                  !.all_jobs = got.all_jobs]
    /\ UNCHANGED <<clock, jobs, nextId, logs, run, faults, cache, match, cts, rag,
                 admin, sched>>

\* a direct call of sync_jobs_from_adzuna whose fetch is followed page by
\* page; the run is followed when it has at most MaxFetch postings
StartFetched(r) ==
    /\ fetch.pc = "idle"
    /\ run[r].pc = "idle"
    /\ LET got == fetch_all_jobs(fetch.pages, fetch.max_pages)
       IN  /\ Len(got.all_jobs) <= MaxFetch
           /\ fetch' = [fetch EXCEPT !.pc = "syncing",
                                     !.requested = got.requested,
                                     !.all_jobs = got.all_jobs]
           /\ BeginSync(r, [run[r] EXCEPT !.kind = "single", !.start = clock],
                        "manual", Len(got.all_jobs), FALSE)
    /\ UNCHANGED <<clock, jobs, nextId, cache, match, cts, rag,
                 admin, sched>>

\* one fetch, alone or at the head of a sync run on a healthy store
FetchNext ==
    \/ FetchAll
    \/ StartFetched("r1")
    \/ Find("r1")
    \/ Write("r1") /\ faults' = faults
    \/ Sweep("r1") /\ faults' = faults

FetchSpec == FetchInit /\ [][FetchNext]_vars

\* ------------------------------------------------------------ CTSClient

\* the exception classes the retry decorators name
RetryTypes == {"DeadlineExceeded", "ServiceUnavailable", "InternalServerError"}

\* how a call of job_service_client can end: with a response, or with one
\* of the GoogleAPIError classes
RemoteAnswers ==
    {"ok", "NotFound", "AlreadyExists", "PermissionDenied"} \cup RetryTypes

\* the decorated methods and the search
CtsOps == {"create_job", "update_job", "search_jobs_with_resume"}

\* the body of a CTSClient method on one answer of the service: it
\* returns, raises exc, or (update_job on NotFound) calls create_job.
\* Every GoogleAPIError that is not handled by name is caught by the
\* method's last handler
cts_body(op, answer) ==
    CASE op = "create_job" ->
            IF answer \in {"ok", "AlreadyExists"}
            THEN [kind |-> "return", exc |-> "none"]
            ELSE [kind |-> "raise", exc |-> "CTSError"]
      [] op = "update_job" ->
            IF answer = "ok" THEN [kind |-> "return", exc |-> "none"]
            ELSE IF answer = "NotFound" THEN [kind |-> "create", exc |-> "none"]
            ELSE [kind |-> "raise", exc |-> "CTSError"]
      [] op = "search_jobs_with_resume" ->
            IF answer = "ok" THEN [kind |-> "return", exc |-> "none"]
            ELSE [kind |-> "return_empty", exc |-> "none"]

\* tenacity's decision on what the body raised: try again, give up with
\* RetryError, or let the exception through; the search is not decorated
retry_decision(op, exc, attempt) ==
    IF op # "search_jobs_with_resume" /\ exc \in RetryTypes
    THEN IF attempt < STOP_AFTER_ATTEMPT THEN "again" ELSE "RetryError"
    ELSE exc

\* a CTSClient method is about to be called on a service with its answers
CtsInit ==
    /\ cts \in [pc : {"idle"}, op : {"none"}, answers : [1 .. MaxCalls -> RemoteAnswers],
                 attempt : {0}, trace : {<<>>}, outcome : {"none"}]
    /\ fetch = NoFetch
    /\ rag = NoScoring
    /\ RestIdle
    /\ clock = 0
    /\ jobs = <<>>
    /\ nextId = 1
    /\ logs = <<>>
    /\ run = [r \in Runs |-> IdleRun]
    /\ faults = 0
    /\ cache = <<>>
    /\ match = IdleMatch

\* the call of a CTSClient method
CtsCall ==
    /\ cts.pc = "idle"
    /\ \E op \in CtsOps : cts' = [cts EXCEPT !.pc = "calling", !.op = op, !.attempt = 1]
    /\ UNCHANGED <<clock, jobs, nextId, logs, run, faults, cache, match, fetch, rag,
                 admin, sched>>

\* one run of the method's body: the remote call, its handlers, and what
\* the decorator does with the result
CtsAttempt ==
    /\ cts.pc = "calling"
    /\ Len(cts.trace) < MaxCalls
    /\ LET answer == cts.answers[Len(cts.trace) + 1]
           body   == cts_body(cts.op, answer)
           trace  == Append(cts.trace, <<cts.op, answer>>)
           next   == IF body.kind = "raise"
                     THEN retry_decision(cts.op, body.exc, cts.attempt)
                     ELSE body.kind
       IN  cts' = CASE next = "again" ->
                         [cts EXCEPT !.trace = trace, !.attempt = @ + 1]
                    [] next = "create" ->
                         [cts EXCEPT !.trace = trace, !.op = "create_job", !.attempt = 1]
                    [] OTHER ->
                         [cts EXCEPT !.trace = trace, !.pc = "done", !.outcome = next]
    /\ UNCHANGED <<clock, jobs, nextId, logs, run, faults, cache, match, fetch, rag,
                 admin, sched>>

CtsNext ==
    \/ CtsCall
    \/ CtsAttempt

CtsSpec == CtsInit /\ [][CtsNext]_vars

\* the order a cursor without sort returns documents in
RECURSIVE NaturalOrder(_)
NaturalOrder(S) ==
    IF S = {} THEN <<>>
    ELSE LET m == CHOOSE x \in S : \A y \in S : x <= y
         IN  <<m>> \o NaturalOrder(S \ {m})

\* ------------------------------------------------------ LocalRAGMatcher

\* LocalRAGMatcher.TECH_SKILLS
TECH_SKILLS ==
    {"python", "java", "javascript", "typescript", "react", "angular", "vue",
     "node", "nodejs", "django", "flask", "fastapi", "spring", "sql", "nosql",
     "mongodb", "postgresql", "mysql", "redis", "docker", "kubernetes", "aws",
     "azure", "gcp", "api", "rest", "graphql", "microservices", "agile", "scrum",
     "git", "ci/cd", "devops", "machine learning", "ml", "ai", "data science",
     "tensorflow", "pytorch", "pandas", "numpy", "spark", "hadoop", "kafka",
     "android", "ios", "swift", "kotlin", "flutter", "react native", "html",
     "css", "sass", "webpack", "elasticsearch", "rabbitmq", "testing",
     "junit", "pytest", "selenium", "cypress", "c++", "golang", "rust", "scala",
     "ruby", "php", "laravel", "rails", ".net", "c#", "asp.net", "blazor"}

\* LocalRAGMatcher.STOP_WORDS
STOP_WORDS ==
    {"a", "an", "and", "are", "as", "at", "be", "by", "for", "from", "has",
     "he", "in", "is", "it", "its", "of", "on", "that", "the", "to", "was",
     "will", "with", "we", "you", "your", "our", "this", "should", "can",
     "may", "must", "have", "had", "but", "or", "not", "been", "which"}

\* the character at position i of a text
CharAt(text, i) == SubSeq(text, i, i)

\* "s in text" of two str values: s occurs in text as a substring
Contains(s, text) ==
    \E i \in 1 .. Len(text) - Len(s) + 1 : SubSeq(text, i, i + Len(s) - 1) = s

UpperCase == "ABCDEFGHIJKLMNOPQRSTUVWXYZ"
LowerCase == "abcdefghijklmnopqrstuvwxyz"

\* str.lower() on one character
lower(c) ==
    IF \E i \in 1 .. Len(UpperCase) : CharAt(UpperCase, i) = c
    THEN CharAt(LowerCase, CHOOSE i \in 1 .. Len(UpperCase) : CharAt(UpperCase, i) = c)
    ELSE c

\* the characters re.sub(r'[^a-z0-9\s\+\#\.\-]', ' ', text) keeps
KeptChars == "abcdefghijklmnopqrstuvwxyz0123456789+#.-"

\* the character _clean_text has at position i before it normalizes
\* whitespace: lower case, a space for what the pattern does not keep
cleaned_char(text, i) ==
    LET c == lower(CharAt(text, i))
    IN  IF Contains(c, KeptChars) THEN c ELSE " "

\* ' '.join(text.split()) keeps position i: a character that is no space,
\* or the first space after a word that is not the last one
kept_position(text, i) ==
    \/ cleaned_char(text, i) # " "
    \/ /\ i > 1 /\ cleaned_char(text, i - 1) # " "
       /\ \E j \in i + 1 .. Len(text) : cleaned_char(text, j) # " "

\* the cleaned characters of positions lo..hi, concatenated
RECURSIVE clean_range(_, _, _)
clean_range(text, lo, hi) ==
    IF lo > hi THEN ""
    ELSE IF lo = hi
    THEN (IF kept_position(text, lo) THEN cleaned_char(text, lo) ELSE "")
    ELSE LET mid == (lo + hi) \div 2
         IN  clean_range(text, lo, mid) \o clean_range(text, mid + 1, hi)

\* LocalRAGMatcher._clean_text on a text without URLs and e-mail
\* addresses: lower case, other characters to spaces, whitespace
\* normalized
clean_text(text) == clean_range(text, 1, Len(text))

\* str.split() of a cleaned text: its words in order
split(text) ==
    LET starts == {i \in 1 .. Len(text) :
                      CharAt(text, i) # " " /\ (i = 1 \/ CharAt(text, i - 1) = " ")}
        End(i)  == CHOOSE j \in i .. Len(text) :
                      /\ j = Len(text) \/ CharAt(text, j + 1) = " "
                      /\ \A k \in i .. j : CharAt(text, k) # " "
        order   == NaturalOrder(starts)
    IN  [n \in 1 .. Len(order) |-> SubSeq(text, order[n], End(order[n]))]

\* LocalRAGMatcher._extract_skills
extract_skills(text) ==
    LET cleaned_text == clean_text(text)
    IN  {skill \in TECH_SKILLS : Contains(skill, cleaned_text)}

\* LocalRAGMatcher._calculate_skill_match as the fraction
\* <<numerator, denominator>>
calculate_skill_match(resume_skills, job_text) ==
    LET job_skills == extract_skills(job_text)
    IN  IF resume_skills = {} \/ job_skills = {} THEN <<0, 1>>
        ELSE <<Cardinality(resume_skills \cap job_skills),
               Cardinality(resume_skills \cup job_skills)>>

\* the keywords of LocalRAGMatcher._extract_keywords for a text with at
\* most top_n of them: the words of two characters or more that are no
\* stop words, and the pairs of neighbouring words of two characters or
\* more; every one has a positive weight
extract_keywords(text) ==
    LET words == split(clean_text(text))
    IN  {words[i] : i \in {j \in 1 .. Len(words) :
                              Len(words[j]) >= 2 /\ words[j] \notin STOP_WORDS}}
        \cup {words[i] \o " " \o words[i + 1] :
                 i \in {j \in 1 .. Len(words) - 1 :
                           Len(words[j]) >= 2 /\ Len(words[j + 1]) >= 2}}

\* whether LocalRAGMatcher._calculate_keyword_match is above 0: some
\* keyword occurs in the cleaned job text (matched_weight sums positive
\* terms only)
keyword_match_positive(resume_keywords, job_text) ==
    \E keyword \in resume_keywords : Contains(keyword, clean_text(job_text))

\* the skills a resume and a job description can name
ResumeSkillLists == {<<>>, <<"Python">>, <<"Python", "FastAPI">>,
                     <<"Python", "FastAPI", "MongoDB">>,
                     <<"Python", "FastAPI", "MongoDB", "AWS">>,
                     <<"FastAPI", "MongoDB", "AWS">>, <<"MongoDB", "AWS">>, <<"AWS">>,
                     <<"Java", "AWS">>, <<"Django">>, <<"PostgreSQL", "Python">>}
JobSkillLists == {<<>>, <<"Python">>, <<"Python", "Django">>,
                  <<"Python", "Django", "PostgreSQL">>,
                  <<"Django", "PostgreSQL">>, <<"PostgreSQL">>, <<"Java">>,
                  <<"FastAPI", "AWS">>, <<"MongoDB">>, <<"Python", "AWS">>}

\* ", ".join(names)
RECURSIVE join(_)
join(names) ==
    IF names = <<>> THEN ""
    ELSE IF Len(names) = 1 THEN names[1]
    ELSE names[1] \o ", " \o join(Tail(names))

\* a resume and a job are about to be scored
RagInit ==
    /\ rag \in [pc : {"idle"},
                 resume_text : {"5 years " \o join(l) : l \in ResumeSkillLists},
                 title : {"Senior Backend Engineer"},
                 description : {join(l) : l \in JobSkillLists},
                 resume_skills : {{}}, job_skills : {{}},
                 skill_score : {<<0, 1>>}, keyword_hit : {FALSE}]
    /\ fetch = NoFetch
    /\ cts = NoCall
    /\ RestIdle
    /\ clock = 0
    /\ jobs = <<>>
    /\ nextId = 1
    /\ logs = <<>>
    /\ run = [r \in Runs |-> IdleRun]
    /\ faults = 0
    /\ cache = <<>>
    /\ match = IdleMatch

\* LocalRAGMatcher.match_resume_to_job up to its skill and keyword scores,
\* for a job without company_display_name
RagScore ==
    /\ rag.pc = "idle"
    /\ LET job_full_text == rag.title \o " " \o rag.title \o " "
                                \o rag.description \o " "
           resume_skills == extract_skills(rag.resume_text)
       IN  rag' = [rag EXCEPT
                      !.pc = "scored",
                      !.resume_skills = resume_skills,
                      !.job_skills = extract_skills(job_full_text),
                      !.skill_score = calculate_skill_match(resume_skills, job_full_text),
                      !.keyword_hit = keyword_match_positive(
                                          extract_keywords(rag.resume_text), job_full_text)]
    /\ UNCHANGED <<clock, jobs, nextId, logs, run, faults, cache, match, fetch, cts,
                 admin, sched>>

RagNext == RagScore

RagSpec == RagInit /\ [][RagNext]_vars

\* ------------------------------------------------------- MatchingService

\* the match requests served, in order
Requests == <<"first", "second">>
\* max_results of a request
ResultLimits == {1, 2}
\* resume texts a request can carry
Resumes == {"cv1"}
\* job_level values parse_job_data assigns
JobLevels == {"ENTRY_LEVEL", "MID_LEVEL"}
\* job_level of a request: not given, or one of the levels
RequestLevels == {"None", "MID_LEVEL"}
\* relevance scores, in thousandths: at the threshold and above it
Scores == {LOW_SCORE, 300, 500}
\* a requisition id the remote service knows and the store does not
UnknownRequisition == RequisitionId("a0", "u1")
\* matching_job.job_title_snippet, a text where a score is expected
Snippet == 0 - 1
\* the relevance_score of a remote result: job_title_snippet or 0.0
RemoteScores == {Snippet, 0}

\* LocalRAGMatcher.match_resume_to_job: a pure function of the resume text
\* and the job's text, held with the record as its value per resume
match_resume_to_job(resume_text, job) == job.relevance[resume_text]

\* a record of the store as matching reads it: the fields of NewJob and
\* job_level; an expired record is one a sweep found past its expires_at
StoredJob(i, status, level, rel) ==
    LET aid  == "a" \o ToString(i)
        born == IF status = "active" THEN JOB_EXPIRY_DAYS + 1 ELSE 0
    IN  [adzuna_id      |-> aid,
         requisition_id |-> RequisitionId(aid, "u1"),
         title          |-> "t1",
         status         |-> status,
         created_at     |-> born,
         updated_at     |-> born,
         expires_at     |-> born + JOB_EXPIRY_DAYS,
         job_level      |-> level,
         relevance      |-> rel]

\* status, level and relevance of a stored record; matching reads only
\* the status of an expired one
JobShapes ==
    ({"active"} \X JobLevels \X [Resumes -> Scores])
        \cup {<<"expired", "ENTRY_LEVEL", [t \in Resumes |-> LOW_SCORE]>>}

\* the stores matching can find
MatchStores ==
    UNION {{[i \in 1 .. n |-> StoredJob(i, f[i][1], f[i][2], f[i][3])] :
               f \in [1 .. n -> JobShapes]} : n \in 0 .. MaxJobs}

MatchInit ==
    /\ OthersIdle
    /\ clock = JOB_EXPIRY_DAYS + 1
    /\ jobs \in MatchStores
    /\ nextId = Cardinality(DOMAIN jobs) + 1
    /\ logs = <<>>
    /\ run = [r \in Runs |-> IdleRun]
    /\ faults = 0
    /\ cache = <<>>
    /\ match = IdleMatch

\* cursor.limit(n) / to_list(length=n) / a slice [:n]
Limit(s, n) == SubSeq(s, 1, IF n < Len(s) THEN n ELSE Len(s))

\* a list left in the order it was built in
unsorted(s) == s

\* list.sort(key=score, reverse=True) on <<job, score>> pairs: stable,
\* highest score first
RECURSIVE SortDesc(_)
SortDesc(s) ==
    IF s = <<>> THEN <<>>
    ELSE LET x == s[Len(s)]
             t == SortDesc(SubSeq(s, 1, Len(s) - 1))
             k == Cardinality({i \in 1 .. Len(t) :
                                  t[i].relevance_score >= x.relevance_score})
         IN  SubSeq(t, 1, k) \o <<x>> \o SubSeq(t, k + 1, Len(t))

\* the Python values a request parameter can hold
PyNone     == [type |-> "NoneType", s |-> "", b |-> FALSE, n |-> 0]
PyStr(x)   == [type |-> "str", s |-> x, b |-> FALSE, n |-> 0]
PyBool(x)  == [type |-> "bool", s |-> "", b |-> x, n |-> 0]
PyFloat(x) == [type |-> "float", s |-> "", b |-> FALSE, n |-> x]

\* the text an f-string puts in place of {v}; a float with a whole value
format(v) ==
    CASE v.type = "NoneType" -> "None"
      [] v.type = "str"      -> v.s
      [] v.type = "bool"     -> IF v.b THEN "True" ELSE "False"
      [] v.type = "float"    -> ToString(v.n) \o ".0"

\* MatchingService._generate_cache_key: the joined parameters, cache_string;
\* the key is its SHA-256 digest, equal exactly when the strings are
generate_cache_key(resume_text, location, internship_only, job_level, stipend_min) ==
    format(resume_text) \o ":" \o format(location) \o ":" \o format(internship_only)
        \o ":" \o format(job_level) \o ":" \o format(stipend_min)

\* a lookup that also takes an entry expiring at the very time of the read
get_cached_results_gte(key, now) ==
    LET hits == {i \in 1 .. Len(cache) :
                    cache[i].resume_hash = key /\ cache[i].expires_at >= now}
    IN  IF hits = {} THEN [hit |-> FALSE, matched_jobs |-> <<>>]
        ELSE [hit |-> TRUE,
              matched_jobs |-> cache[CHOOSE i \in hits : \A j \in hits : i <= j].matched_jobs]

\* MatchingService._get_cached_results: the first unexpired entry under the key
get_cached_results(key, now) ==
    LET hits == {i \in 1 .. Len(cache) :
                    cache[i].resume_hash = key /\ cache[i].expires_at > now}
    IN  IF hits = {} THEN [hit |-> FALSE, matched_jobs |-> <<>>]
        ELSE [hit |-> TRUE,
              matched_jobs |-> cache[CHOOSE i \in hits : \A j \in hits : i <= j].matched_jobs]

\* the document _cache_results inserts: the key, the (job id, score) pairs
\* of the filtered jobs, and the time it stops being valid, in days
cache_entry(key, filtered, score_map, now) ==
    [resume_hash  |-> key,
     matched_jobs |-> [i \in 1 .. Len(filtered) |->
                          [job_id |-> filtered[i],
                           relevance_score |->
                               IF filtered[i] \in DOMAIN score_map
                               THEN score_map[filtered[i]] ELSE 0]],
     expires_at   |-> now + CACHE_EXPIRY_HOURS \div 24]

\* MatchingService._apply_filters with stipend_min and internship_only unset
apply_filters(ids, job_level) ==
    IF job_level = "None" THEN ids
    ELSE SelectSeq(ids, LAMBDA d : jobs[d].job_level = job_level)

\* MatchingService._build_match_responses: [ok, responses]; ok = FALSE
\* when JobMatchResponse(relevance_score=...) rejects a text
build_match_responses(ids, score_map) ==
    LET Score(d) == IF d \in DOMAIN score_map THEN score_map[d] ELSE 0
        resp     == [i \in 1 .. Len(ids) |->
                        [job_id |-> ids[i], relevance_score |-> Score(ids[i])]]
    IN  IF \E i \in 1 .. Len(ids) : Score(ids[i]) = Snippet
        THEN [ok |-> FALSE, responses |-> <<>>]
        ELSE [ok |-> TRUE, responses |-> SortDesc(resp)]

\* the jobs_collection.find of the remote path: active records under the
\* returned requisition ids; each takes the score of the last result
\* naming it
RemoteMatches(cts_results) ==
    LET rids  == {cts_results[i].requisition_id : i \in 1 .. Len(cts_results)}
        found == {d \in DOMAIN jobs :
                     jobs[d].requisition_id \in rids /\ jobs[d].status = "active"}
        Last(d) == CHOOSE i \in 1 .. Len(cts_results) :
                      /\ cts_results[i].requisition_id = jobs[d].requisition_id
                      /\ \A j \in 1 .. Len(cts_results) :
                            cts_results[j].requisition_id = jobs[d].requisition_id
                                => j <= i
    IN  [jobs |-> Limit(NaturalOrder(found), Len(cts_results)),
         score_map |-> [d \in found |-> cts_results[Last(d)].relevance_score]]

\* the local fallback: the first 3 * max_results active records, scored,
\* sorted, those above the threshold, cut to max_results
LocalMatches(resume_text, max_results) ==
    LET active     == {d \in DOMAIN jobs : jobs[d].status = "active"}
        candidates == Limit(NaturalOrder(active), max_results * 3)
        scored     == [i \in 1 .. Len(candidates) |->
                          [job_id |-> candidates[i],
                           relevance_score |->
                               match_resume_to_job(resume_text, jobs[candidates[i]])]]
        kept       == SelectSeq(SortDesc(scored),
                                LAMBDA x : x.relevance_score > LOW_SCORE)
        top        == Limit(kept, max_results)
    IN  [jobs |-> [i \in 1 .. Len(top) |-> top[i].job_id],
         score_map |-> [d \in {top[i].job_id : i \in 1 .. Len(top)} |->
                           match_resume_to_job(resume_text, jobs[d])]]

\* how job_service_client.search_jobs can end: it answers, raises a
\* GoogleAPIError, or raises something else
ApiOutcomes == {"ok", "api_error", "error"}

\* CTSClient.search_jobs_with_resume (search_jobs_with_jd delegates to
\* it): the matching jobs of an answer; [] for a GoogleAPIError, which it
\* logs; whatever else was raised goes on to the caller
search_jobs_with_resume(api, matching_jobs) ==
    [raised  |-> api = "error",
     results |-> IF api = "ok" THEN matching_jobs ELSE <<>>]

\* the matching jobs the remote service can answer with
CtsResults(max_results) ==
    LET rids == {jobs[d].requisition_id : d \in DOMAIN jobs} \cup {UnknownRequisition}
        hit  == [requisition_id : rids, relevance_score : RemoteScores]
    IN  UNION {[1 .. n -> hit] : n \in 0 .. max_results}

\* a fallback taken whatever the remote search returned
use_local_rag_always(raised, cts_results) == TRUE

\* use_local_rag after the remote search: it raised (the except branch)
\* or returned an empty list
use_local_rag(raised, cts_results) == raised \/ cts_results = <<>>

\* a result cached whatever its length
found_jobs_or_none(filtered_jobs) == TRUE

\* "if filtered_jobs:", the test before _cache_results
found_jobs(filtered_jobs) == filtered_jobs # <<>>

\* match_resume_to_jobs up to the cache lookup
MatchStart ==
    /\ match.pc = "idle"
    /\ match.served < Len(Requests)
    /\ \E resume_text \in Resumes, job_level \in RequestLevels,
          max_results \in ResultLimits :
          LET key == generate_cache_key(
                         PyStr(resume_text), PyNone, PyBool(FALSE),
                         IF job_level = "None" THEN PyNone ELSE PyStr(job_level),
                         PyNone)
              got == get_cached_results(key, clock)
          IN  match' = [match EXCEPT !.entry = "resume",
                                     !.resume_text = resume_text,
                                     !.job_level = job_level,
                                     !.max_results = max_results,
                                     !.cache_key = key,
                                     !.cached = got.matched_jobs,
                                     !.pc = IF got.hit /\ got.matched_jobs # <<>>
                                            THEN "hydrate" ELSE "search"]
    /\ UNCHANGED <<clock, jobs, nextId, logs, run, faults, cache, others>>

\* the cache hit: the cached ids that are still active, with cached scores
MatchHydrate ==
    /\ match.pc = "hydrate"
    /\ LET ids   == {match.cached[i].job_id : i \in 1 .. Len(match.cached)}
           found == {d \in DOMAIN jobs : d \in ids /\ jobs[d].status = "active"}
           score_map == [d \in ids |->
                            (CHOOSE x \in {match.cached[i] : i \in 1 .. Len(match.cached)} :
                                x.job_id = d).relevance_score]
           built == build_match_responses(
                        Limit(NaturalOrder(found), Len(match.cached)), score_map)
       IN  match' = [match EXCEPT !.score_map = score_map,
                                  !.result = built.responses,
                                  !.raised = ~built.ok,
                                  !.pc = "done"]
    /\ UNCHANGED <<clock, jobs, nextId, logs, run, faults, cache, others>>

\* the cache miss: the remote search, the local fallback when it raised
\* or returned nothing, then the post-filters
MatchSearch ==
    /\ match.pc = "search"
    /\ \E api \in ApiOutcomes, matching_jobs \in CtsResults(match.max_results) :
          LET out      == search_jobs_with_resume(api, matching_jobs)
              raised   == out.raised
              cts_results == out.results
              local    == use_local_rag(raised, cts_results)
              got      == IF local
                          THEN LocalMatches(match.resume_text, match.max_results)
                          ELSE RemoteMatches(cts_results)
              filtered == apply_filters(got.jobs, match.job_level)
              built    == build_match_responses(filtered, got.score_map)
          IN  /\ api # "ok" => matching_jobs = <<>>
              /\ match' = [match EXCEPT
                              !.api = api,
                              !.remote = IF raised THEN "raised"
                                         ELSE IF cts_results = <<>> THEN "empty"
                                         ELSE "results",
                              !.use_local_rag = local,
                              !.score_map = got.score_map,
                              !.filtered = filtered,
                              !.result = built.responses,
                              !.raised = ~built.ok,
                              !.pc = IF found_jobs(filtered) THEN "cache" ELSE "done"]
    /\ UNCHANGED <<clock, jobs, nextId, logs, run, faults, cache, others>>

\* match_jd_to_jobs: the remote search and the records it names; nothing
\* catches what the search raises, and nothing is searched locally
MatchJd ==
    /\ match.pc = "idle"
    /\ match.served < Len(Requests)
    /\ \E job_description \in Resumes, max_results \in ResultLimits :
       \E api \in ApiOutcomes, matching_jobs \in CtsResults(max_results) :
          LET out   == search_jobs_with_resume(api, matching_jobs)
              raised == out.raised
              cts_results == out.results
              got   == RemoteMatches(cts_results)
              built == build_match_responses(got.jobs, got.score_map)
          IN  /\ api # "ok" => matching_jobs = <<>>
              /\ match' = [match EXCEPT
                              !.entry = "jd",
                              !.api = api,
                              !.resume_text = job_description,
                              !.max_results = max_results,
                              !.remote = IF raised THEN "raised"
                                         ELSE IF cts_results = <<>> THEN "empty"
                                         ELSE "results",
                              !.score_map = IF raised THEN <<>> ELSE got.score_map,
                              !.result = IF raised THEN <<>> ELSE built.responses,
                              !.raised = raised \/ ~built.ok,
                              !.pc = "done"]
    /\ UNCHANGED <<clock, jobs, nextId, logs, run, faults, cache, others>>

\* _cache_results of a non-empty result; fault = insert_one raises, which
\* _cache_results swallows
MatchCache ==
    /\ match.pc = "cache"
    /\ \E fault \in {FALSE, CanFault} :
          LET entry == cache_entry(match.cache_key, match.filtered,
                                   match.score_map, clock)
          IN  /\ cache' = IF fault THEN cache ELSE Append(cache, entry)
              /\ faults' = IF fault THEN faults + 1 ELSE faults
    /\ match' = [match EXCEPT !.pc = "done"]
    /\ UNCHANGED <<clock, jobs, nextId, logs, run, others>>

\* the caller has the result; the service takes the next request
MatchReturn ==
    /\ match.pc = "done"
    /\ match' = [IdleMatch EXCEPT !.served = match.served + 1]
    /\ UNCHANGED <<clock, jobs, nextId, logs, run, faults, cache, others>>

\* a day passes between two requests while a cache entry is still valid
MatchTick ==
    /\ match.pc = "idle"
    /\ \E i \in 1 .. Len(cache) : cache[i].expires_at > clock
    /\ clock' = clock + 1
    /\ UNCHANGED <<jobs, nextId, logs, run, faults, cache, match, others>>

MatchNext ==
    \/ MatchStart
    \/ MatchHydrate
    \/ MatchSearch
    \/ MatchJd
    \/ MatchCache
    \/ MatchReturn
    \/ MatchTick

MatchSpec == MatchInit /\ [][MatchNext]_vars

\* a second match_resume_to_jobs call with the same parameters, served
\* while the first one waits to write its result to the cache: it misses
\* for the same reason, searches, and caches what it found
MatchConcurrent ==
    /\ match.pc = "cache"
    /\ ~get_cached_results(match.cache_key, clock).hit
    /\ \E api \in ApiOutcomes, matching_jobs \in CtsResults(match.max_results) :
          LET out      == search_jobs_with_resume(api, matching_jobs)
              local    == use_local_rag(out.raised, out.results)
              got      == IF local
                          THEN LocalMatches(match.resume_text, match.max_results)
                          ELSE RemoteMatches(out.results)
              filtered == apply_filters(got.jobs, match.job_level)
          IN  /\ api # "ok" => matching_jobs = <<>>
              /\ found_jobs(filtered)
              /\ cache' = Append(cache, cache_entry(match.cache_key, filtered,
                                                    got.score_map, clock))
    /\ UNCHANGED <<clock, jobs, nextId, logs, run, faults, match, others>>

ConcMatchNext ==
    \/ MatchNext
    \/ cache = <<>> /\ MatchConcurrent

\* the matching service with two requests in flight on an empty cache
ConcMatchSpec == MatchInit /\ [][ConcMatchNext]_vars

\* the parameters of a match request, as the API hands them over
KeyRequests ==
    [resume_text     : {PyStr("a"), PyStr("a:b")},
     location        : {PyNone, PyStr("None"), PyStr("c"), PyStr("b:c")},
     internship_only : {PyNone, PyBool(FALSE), PyBool(TRUE)},
     job_level       : {PyNone, PyStr("ENTRY_LEVEL")},
     stipend_min     : {PyNone, PyFloat(1)}]

\* two requests waiting for their cache keys
KeyInit ==
    /\ OthersIdle
    /\ clock = JOB_EXPIRY_DAYS + 1
    /\ jobs = <<>>
    /\ nextId = 1
    /\ logs = <<>>
    /\ run = [r \in Runs |-> IdleRun]
    /\ faults = 0
    /\ cache = <<>>
    /\ match \in [pc : {"idle"}, first : KeyRequests, second : KeyRequests,
                   first_key : {""}, second_key : {""}]

\* both requests take their key, as match_resume_to_jobs does first
KeyBoth ==
    /\ match.pc = "idle"
    /\ LET Key(q) == generate_cache_key(q.resume_text, q.location, q.internship_only,
                                        q.job_level, q.stipend_min)
       IN  match' = [match EXCEPT !.pc = "keyed",
                                  !.first_key = Key(match.first),
                                  !.second_key = Key(match.second)]
    /\ UNCHANGED <<clock, jobs, nextId, logs, run, faults, cache, others>>

KeyNext == KeyBoth

KeySpec == KeyInit /\ [][KeyNext]_vars

\* ============================================================ properties

\* the completed log documents
Completed == {k \in DOMAIN logs : logs[k].status = "completed"}

\* run r is a finished direct call of sync_jobs_from_adzuna that returned
SingleDone(r) ==
    run[r].kind = "single" /\ run[r].pc = "done" /\ ~run[r].raised

\* run r is a finished sync_engineering_jobs call that returned
BulkDone(r) ==
    run[r].kind = "bulk" /\ run[r].pc = "done" /\ ~run[r].raised

\* the step is taken by run r
StepOf(r) == run'[r] # run[r]

\* document d is removed, or goes from active to expired, in the step
Dropped(d) == d \in DOMAIN jobs /\ d \notin DOMAIN jobs'

Expired(d) ==
    /\ d \in DOMAIN jobs /\ d \in DOMAIN jobs'
    /\ jobs[d].status = "active" /\ jobs'[d].status = "expired"

\* ---------------------------------------------------------------- C1
\* C1: every sync log that reaches status completed, of a direct run or
\* the parent log of a bulk run, has
\* jobs_created + jobs_updated + jobs_failed = jobs_fetched.
C1_Accounting ==
    \A k \in Completed :
        logs[k].jobs_created + logs[k].jobs_updated + logs[k].jobs_failed
            = logs[k].jobs_fetched

C3_OwnWritesSurviveSweep ==
    [][\A r \in Runs :
          StepOf(r) /\ run[r].pc \in {"sweep", "delete"} =>
              \A d \in DOMAIN run[r].wrote : ~Dropped(d) /\ ~Expired(d)]_vars

C3_Witness ==
    \E r \in Runs :
        /\ BulkDone(r) /\ run[r].swept = "ok"
        /\ logs[<<r, 0>>].jobs_deleted > 0
        /\ run[r].wrote # <<>>
        /\ \A d \in DOMAIN run[r].wrote :
              d \in DOMAIN jobs /\ jobs[d].status = "active"

C5_AtMostOneRun == Cardinality({r \in Runs : Active(r)}) <= 1

\* ---------------------------------------------------------------- C6
\* the external ids of the postings run r wrote
WroteIds(r) == {run[r].wrote[d].adzuna_id : d \in DOMAIN run[r].wrote}

Reingests(r, q) ==
    /\ run[r].pc = "write" /\ run[q].pc = "done"
    /\ \E d \in DOMAIN run[q].wrote : run[q].wrote[d] = parse_job_data(run[r].cur)

\* C7: a posting processed by two successive runs with unchanged content
\* is counted as created by the first and as updated, not created, by the
\* second, and the second leaves the number of records unchanged.
C7_SecondSyncUpdates ==
    [][\A r \in Runs : \A q \in Runs \ {r} :
          StepOf(r) /\ Reingests(r, q) =>
              /\ logs[<<q, 0>>].jobs_created = Cardinality(DOMAIN run[q].wrote)
              /\ run'[r].u = run[r].u + 1
              /\ run'[r].c = run[r].c /\ run'[r].f = run[r].f
              /\ DOMAIN jobs' = DOMAIN jobs]_vars

C7_Witness ==
    /\ SingleDone("r1") /\ SingleDone("r2")
    /\ run["r1"].wrote = run["r2"].wrote /\ run["r1"].wrote # <<>>
    /\ logs[<<"r1", 0>>].jobs_created = 1 /\ logs[<<"r2", 0>>].jobs_created = 0
    /\ logs[<<"r2", 0>>].jobs_updated = 1
    /\ Cardinality(DOMAIN jobs) = 1

\* ---------------------------------------------------------------- C8
\* C8: no two job records share an adzuna_id, and no two share a
\* requisition_id, whatever the interleaving of the runs.
C8_UniqueIds ==
    \A d \in DOMAIN jobs, e \in DOMAIN jobs :
        d # e => /\ jobs[d].adzuna_id # jobs[e].adzuna_id
                 /\ jobs[d].requisition_id # jobs[e].requisition_id

\* a run looked a posting up, found nothing, and another run has inserted
\* that posting since
C8_Witness ==
    \E r \in Runs :
        /\ run[r].pc = "write" /\ run[r].existing = None
        /\ \E d \in DOMAIN jobs : jobs[d].adzuna_id = run[r].cur[1]

\* ---------------------------------------------------------------- C9
\* C9: a record's status changes only from active to expired, except that
\* _update_job of a sync run sets it to active, and that step resets
\* expires_at to a time in the future.
C9_StatusTransitions ==
    [][\A d \in DOMAIN jobs \cap DOMAIN jobs' :
          jobs'[d].status # jobs[d].status =>
              \/ jobs[d].status = "active" /\ jobs'[d].status = "expired"
              \/ /\ jobs[d].status = "expired" /\ jobs'[d].status = "active"
                 /\ \E r \in Runs :
                       StepOf(r) /\ run[r].pc = "write" /\ run[r].existing = d
                 /\ jobs'[d].expires_at > clock]_vars

C9_Witness ==
    \E d \in DOMAIN jobs, r \in Runs :
        /\ jobs[d].status = "active"
        /\ jobs[d].created_at + JOB_EXPIRY_DAYS < jobs[d].updated_at
        /\ d \in DOMAIN run[r].wrote
        /\ <<r, 1>> \in Completed /\ logs[<<r, 1>>].jobs_deleted = 1

\* ---------------------------------------------------------------- C10
\* record d is active, passes the request's filters and scores above the
\* threshold against the request's resume
Qualifies(d) ==
    /\ jobs[d].status = "active"
    /\ match.job_level = "None" \/ jobs[d].job_level = match.job_level
    /\ match_resume_to_job(match.resume_text, jobs[d]) > LOW_SCORE

\* C10: when the remote search raised or returned an empty list, the
\* result of match_resume_to_jobs is non-empty whenever some active record
\* that passes the request's filters scores above 0.1.
C10_FallbackFindsQualifying ==
    /\ match.pc = "done"
    /\ match.use_local_rag
    /\ \E d \in DOMAIN jobs : Qualifies(d)
    => match.result # <<>>

\* ---------------------------------------------------------------- C11
\* C11: whenever the remote search raised or returned an empty list, the
\* matching entry point (match_resume_to_jobs, match_jd_to_jobs) returns
\* without raising, with a result of the local fallback.
C11_RemoteFailureFallsBack ==
    match.pc = "done" /\ match.remote \in {"raised", "empty"} =>
        ~match.raised /\ match.use_local_rag

\* ---------------------------------------------------------------- C12
\* C12: search_jobs_with_resume never reports a failed remote call with
\* the return value of a search that found nothing, the empty list.
C12_FailureDistinctFromEmpty ==
    match.pc = "done" /\ match.api # "ok" => match.remote # "empty"

\* ---------------------------------------------------------------- C13
\* C13: when _cache_results(key, L) has stored L, the next
\* _get_cached_results(key) before expiry returns exactly L, whatever was
\* written to the cache before and whatever a concurrent request on the
\* same key did.
C13_CacheRoundTrip ==
    [][match.pc = "cache" /\ match'.pc = "done" /\ cache' # cache =>
          get_cached_results(match.cache_key, clock)'.matched_jobs
              = cache_entry(match.cache_key, match.filtered,
                            match.score_map, clock).matched_jobs]_vars

\* ---------------------------------------------------------------- C14
\* the cache entries stored under key k
EntriesOf(k) == {i \in 1 .. Len(cache) : cache[i].resume_hash = k}

C15_KeyInjective ==
    match.pc = "keyed" =>
        (match.first_key = match.second_key <=> match.first = match.second)

\* ---------------------------------------------------------------- C16
\* C16: after any sequence of match requests no cache entry has an empty
\* matched_jobs list.
C16_NoEmptyEntry ==
    \A i \in 1 .. Len(cache) : cache[i].matched_jobs # <<>>

\* a request that missed the cache, searched, was left with no job after
\* the filters, and returned without an entry under its key
C16_Witness ==
    /\ match.pc = "done"
    /\ match.entry = "resume"
    /\ match.remote # "none"
    /\ match.filtered = <<>>
    /\ EntriesOf(match.cache_key) = {}

\* ---------------------------------------------------------------- C17
\* C17: the list a matching request returns is in non-increasing order of
\* relevance score, whether it came from the cache, from the remote
\* search or from the local fallback.
C17_ResultSortedDesc ==
    match.pc = "done" /\ ~match.raised =>
        \A i \in 1 .. Len(match.result) : \A j \in i .. Len(match.result) :
            match.result[i].relevance_score >= match.result[j].relevance_score

\* a cache hit returned two jobs, the later-stored one first because it
\* scores higher
C17_Witness ==
    /\ match.pc = "done"
    /\ ~match.raised
    /\ match.cached # <<>>
    /\ Len(match.result) = 2
    /\ match.result[1].job_id > match.result[2].job_id
    /\ match.result[1].relevance_score > match.result[2].relevance_score

\* ---------------------------------------------------------------- C18
\* C18: a finished direct call of sync_jobs_from_adzuna in which something
\* raised outside the per-posting loop, the staleness sweep included, has
\* left its run record failed with the error stored and has raised to its
\* caller.
C18_RunFailureRecorded ==
    \A r \in Runs :
        /\ run[r].kind = "single"
        /\ run[r].pc = "done"
        /\ run[r].swept = "err" \/ run[r].raised
        => /\ logs[<<r, 0>>].status = "failed"
           /\ logs[<<r, 0>>].error
           /\ run[r].raised

\* ---------------------------------------------------------------- C19
\* C19: a run record whose status is completed or failed is changed by no
\* later step; in particular it never goes from completed to failed.
C19_FinishedLogImmutable ==
    [][\A k \in DOMAIN logs :
          logs[k].status \in {"completed", "failed"} =>
              k \in DOMAIN logs' /\ logs'[k] = logs[k]]_vars

\* ---------------------------------------------------------------- C20
\* the categories of a bulk run
Categories == 1 .. Len(ENGINEERING_CONFIG)

\* the sub-sync of category c of bulk run r ends as failed in the step
CategoryFails(r, c) ==
    /\ run[r].kind = "bulk"
    /\ <<r, c>> \in DOMAIN logs'
    /\ logs'[<<r, c>>].status = "failed"
    /\ <<r, c>> \in DOMAIN logs => logs[<<r, c>>].status # "failed"

\* a run that returned has a completed record and has gone through all
\* its postings or categories
ReturnedComplete(r) ==
    /\ SingleDone(r) =>
          /\ logs[<<r, 0>>].status = "completed"
          /\ logs[<<r, 0>>].jobs_failed = run[r].f
          /\ run[r].left = 0
    /\ BulkDone(r) =>
          /\ logs[<<r, 0>>].status = "completed"
          /\ logs[<<r, 0>>].jobs_failed = run[r].tf
          /\ \A c \in Categories : <<r, c>> \in DOMAIN logs
          /\ run[r].tf >= Cardinality({c \in Categories : logs[<<r, c>>].status = "failed"})

RECURSIVE PagesBefore(_, _)
PagesBefore(pages, k) ==
    IF k <= 1 THEN <<>>
    ELSE PagesBefore(pages, k - 1) \o PagePostings(k - 1, pages[k - 1].results)

\* page k was asked for and the request failed
PageFailed(k) ==
    /\ fetch.pc \in {"fetched", "syncing"}
    /\ k <= fetch.requested
    /\ fetch.pages[k].kind # "ok"

\* C21: when the request for page k fails, no later page is asked for and
\* fetch_all_jobs returns exactly the postings of pages 1..k-1; when there
\* are any, the sync run records them as fetched, goes through all of
\* them and does not end failed.
C21_PartialFetchKept ==
    \A k \in 1 .. MaxPages :
        PageFailed(k) =>
            /\ fetch.requested = k
            /\ fetch.all_jobs = PagesBefore(fetch.pages, k)
            /\ fetch.pc = "syncing" /\ fetch.all_jobs # <<>> =>
                  /\ logs[<<"r1", 0>>].jobs_fetched = Len(fetch.all_jobs)
                  /\ logs[<<"r1", 0>>].status # "failed"
                  /\ run["r1"].pc = "done" =>
                        /\ logs[<<"r1", 0>>].status = "completed"
                        /\ run["r1"].c + run["r1"].u + run["r1"].f = Len(fetch.all_jobs)

\* the second page failed after the first one yielded a posting, and the
\* run that fetched them has completed
C21_Witness ==
    /\ PageFailed(2)
    /\ fetch.pc = "syncing"
    /\ Len(fetch.all_jobs) = 1
    /\ run["r1"].pc = "done"
    /\ logs[<<"r1", 0>>].status = "completed"

\* ---------------------------------------------------------------- C28
\* C28: fetch_all_jobs asks for page p + 1 exactly when p < max_pages,
\* page p returned at least one posting, and the postings fetched through
\* page p are fewer than the count page p reported; it asks for no more
\* than max_pages pages.
C28_NextPageRule ==
    fetch.pc \in {"fetched", "syncing"} =>
        /\ fetch.requested <= fetch.max_pages
        /\ \A p \in 1 .. fetch.requested :
              p + 1 <= fetch.requested <=>
                  /\ p < fetch.max_pages
                  /\ fetch.pages[p].kind = "ok"
                  /\ fetch.pages[p].results >= 1
                  /\ Len(PagesBefore(fetch.pages, p + 1)) < fetch.pages[p].count

\* ---------------------------------------------------------------- C22
\* the remote calls i and i + 1 of the followed CTSClient call are calls of
\* the same method: the second is a retry of the first
Retried(i) ==
    i + 1 <= Len(cts.trace) /\ cts.trace[i + 1][1] = cts.trace[i][1]

\* C22: a remote call that ends with a transient error (DeadlineExceeded,
\* ServiceUnavailable, InternalServerError) is made again unless it was
\* the third attempt, so a failure is reported only after three attempts;
\* a remote call that ends with NotFound, AlreadyExists or
\* PermissionDenied is never made again.
C22_RetryTransientOnly ==
    cts.pc = "done" =>
        \A i \in 1 .. Len(cts.trace) :
            /\ cts.trace[i][2] \in RetryTypes =>
                  \/ Retried(i)
                  \/ /\ i >= STOP_AFTER_ATTEMPT
                     /\ \A j \in (i - STOP_AFTER_ATTEMPT + 1) .. i :
                           cts.trace[j] = cts.trace[i]
            /\ cts.trace[i][2] \in {"NotFound", "AlreadyExists", "PermissionDenied"} =>
                  ~Retried(i)

\* ---------------------------------------------------------------- C23
\* C23: for the resume "5 years Python, FastAPI, MongoDB, AWS" and the job
\* "Senior Backend Engineer" described by "Python, Django, PostgreSQL" the
\* skill-match component is 1/6, the Jaccard similarity of {python,
\* fastapi, mongodb, aws} and {python, django, postgresql}, and the
\* keyword-match component is above 0.
C23_ScenarioScores ==
    /\ rag.pc = "scored"
    /\ rag.resume_text = "5 years Python, FastAPI, MongoDB, AWS"
    /\ rag.title = "Senior Backend Engineer"
    /\ rag.description = "Python, Django, PostgreSQL"
    => /\ rag.skill_score[1] * 6 = rag.skill_score[2] * 1
       /\ rag.resume_skills = {"python", "fastapi", "mongodb", "aws"}
       /\ rag.job_skills = {"python", "django", "postgresql"}
       /\ rag.keyword_hit

\* ---------------------------------------------------------------- C24
\* C24: the delete at the end of sync_engineering_jobs removes every job
\* record whose updated_at precedes the bulk start time and the bulk run
\* ends completed, whatever the categories fetched and however many of
\* them failed.
C24_BulkDeletesUnrefreshed ==
    [][\A r \in Runs :
          run[r].pc = "delete" /\ run'[r].pc = "done" =>
              /\ \A d \in DOMAIN jobs :
                    jobs[d].updated_at < run[r].start => d \notin DOMAIN jobs'
              /\ logs'[<<r, 0>>].status = "completed"]_vars

\* a bulk run whose first category failed and whose second one fetched
\* nothing has completed, having deleted the record the store had
C24_Witness ==
    \E r \in Runs :
        /\ BulkDone(r)
        /\ logs[<<r, 1>>].status = "failed"
        /\ logs[<<r, 2>>].jobs_fetched = 0
        /\ logs[<<r, 0>>].status = "completed"
        /\ logs[<<r, 0>>].jobs_deleted >= 1
        /\ DOMAIN jobs = {}

\* ---------------------------------------------------------------- C25
\* C25: when the remote search returned a non-empty list,
\* match_resume_to_jobs does not use the local matcher; when in addition
\* no returned requisition id is that of an active record, it returns an
\* empty list and writes nothing to the cache.
C25_NoFallbackOnUnresolved ==
    [][match.pc = "search" /\ match'.remote = "results" =>
          /\ ~match'.use_local_rag
          /\ DOMAIN match'.score_map = {} =>
                /\ match'.pc = "done"
                /\ ~match'.raised
                /\ match'.result = <<>>
                /\ cache' = cache]_vars

\* a request returned nothing after a remote answer that named no active
\* record, although an active record qualifies for the local matcher
C25_Witness ==
    /\ match.pc = "done"
    /\ match.entry = "resume"
    /\ match.remote = "results"
    /\ DOMAIN match.score_map = {}
    /\ match.result = <<>>
    /\ \E d \in DOMAIN jobs : Qualifies(d)

\* ---------------------------------------------------------------- C26
\* record d is among the first 3 * max_results active records, the pool
\* the local fallback scores
InPool(d) ==
    /\ jobs[d].status = "active"
    /\ Cardinality({e \in DOMAIN jobs : jobs[e].status = "active" /\ e < d})
           < match.max_results * 3

\* C26: the result of the local fallback holds at most max_results jobs,
\* each scoring above 0.1 and passing the requested filters, and a pool
\* candidate that scores above 0.1 and passes the filters is left out only
\* when max_results jobs scoring at least as high are returned.
C26_TruncateAfterFilters ==
    [][match.pc = "search" /\ match'.use_local_rag /\ ~match'.raised =>
          LET result == match'.result
              ids    == {result[i].job_id : i \in 1 .. Len(result)}
          IN  /\ Len(result) <= match.max_results
              /\ \A i \in 1 .. Len(result) :
                    /\ result[i].relevance_score > LOW_SCORE
                    /\ Qualifies(result[i].job_id)
              /\ \A d \in DOMAIN jobs :
                    InPool(d) /\ Qualifies(d) /\ d \notin ids =>
                        /\ Len(result) = match.max_results
                        /\ \A i \in 1 .. Len(result) :
                              result[i].relevance_score >=
                                  match_resume_to_job(match.resume_text, jobs[d])]_vars

\* ---------------------------------------------------------------- C27
\* run r found its current posting absent and another run has inserted it
\* since
LostInsertRace(r) ==
    /\ run[r].pc = "write"
    /\ run[r].existing = None
    /\ ValidJob(parse_job_data(run[r].cur))
    /\ find_one(jobs, parse_job_data(run[r].cur).adzuna_id) # None

\* C27: a run whose insert meets the unique index on adzuna_id, because a
\* concurrent run inserted the same posting after this run's find_one,
\* updates the existing record and counts the posting as updated, not as
\* failed.
C27_ConflictCountsUpdated ==
    [][\A r \in Runs :
          LostInsertRace(r) /\ run'[r].pc # "write" =>
              /\ run'[r].u = run[r].u + 1
              /\ run'[r].f = run[r].f]_vars

\* ---------------------------------------------------------------- C29
\* C29: once the background task of a refresh request whose search_query
\* is not ALL_ENGINEERING has run, a sync run record of type manual exists,
\* in_progress or already completed or failed, and the task has not raised.
C29_ManualRefreshStartsRun ==
    admin.pc = "started" /\ admin.search_query # "ALL_ENGINEERING" =>
        /\ ~admin.raised
        /\ \E k \in DOMAIN logs :
              /\ logs[k].sync_type = "manual"
              /\ logs[k].status \in {"in_progress", "completed", "failed"}

\* ---------------------------------------------------------------- C30
\* the number of jobs registered under id
Registered(s, id) ==
    Cardinality({i \in 1 .. Len(s.jobstore) : s.jobstore[i].id = id})

\* C30: when the startup phase of lifespan has completed, is_running is
\* true and each of daily_job_sync, daily_emails, weekly_emails and
\* biweekly_emails is registered exactly once; a start call on a running
\* scheduler leaves the registered jobs unchanged.
C30_StartupRegistersTriggers ==
    [][/\ sched.phase = "created" /\ sched'.phase = "up" =>
             /\ sched'.is_running
             /\ \A id \in RecurringIds : Registered(sched', id) = 1
       /\ sched.is_running /\ sched'.starts = sched.starts + 1 =>
             sched'.jobstore = sched.jobstore]_vars

====
